---- MODULE Spec2Model ----
(***************************************************************************)
(* AG2D, a 2D canvas engine.  The model covers the two builds of the       *)
(* engine in the repository:                                               *)
(*    src/js/index.js          (entry = "index")                           *)
(*    src/js/modules/ag2d.js   (entry = "ag2d")                            *)
(* and, of each, the constructor, the start-up path, the render loop with  *)
(* its update / draw cadence, the canvas fit (resizeCanvas) and the resize *)
(* listener; and the Animation model (src/js/models/Animation.js) with the *)
(* animator that update() drives.                                          *)
(*                                                                         *)
(* Specifications.  Spec is the engine with user hooks that return;        *)
(* ColourSpec adds a background colour, NonPositiveFpsSpec an fps of 0 or  *)
(* below, ResizeSpec the window's resize events, FaultSpec hooks that      *)
(* throw.  FitSpec and ViewportSpec are resizeCanvas on its own,           *)
(* AnimationSpec the construction and playback of an Animation.            *)
(*                                                                         *)
(* Time.  window.performance.now() is the variable `now`.  One unit of     *)
(* `now` is 5/3 ms, so that one second is 600 units and 1000 / fps is a    *)
(* whole number of units for every fps the model configures (60 -> 10      *)
(* units).  The clock advances between handlers (Elapse) and while a       *)
(* handler runs user code: every call of a user hook takes a duration      *)
(* chosen from 0 .. MaxStep, so two readings of performance.now() inside   *)
(* one handler may differ.                                                 *)
(*                                                                         *)
(* Numbers.  Arithmetic on times and sizes is exact (integers and          *)
(* rationals).  For the sizes within MaxDim + 1, and for the default       *)
(* 300 x 150, Math.floor(height * destRatio) and                           *)
(* Math.floor(width / destRatio) on IEEE doubles give these exact values;  *)
(* the first logical size where a double product falls below the exact     *)
(* integer is 9 x 7 (9 / (9 / 7) is 6.999...).                             *)
(***************************************************************************)
EXTENDS Integers, Sequences, FiniteSets, TLC

\* ------------------------------------------------------------------ bounds
MaxTime  == 13      \* the clock is observed on StartTime .. MaxTime
MaxStep  == 1       \* longest duration of one user hook / one gap between two clock reads
StartTime == 1      \* the clock when the engine is constructed
MaxDim   == 6       \* largest logical / container dimension of the fit
MaxFrames == 4      \* most frames of an animation
MaxDeltaSteps == 40 \* largest delta given to the animator, in steps of 25 ms

\* ------------------------------------------------------- program constants
MsPerSecond   == 1000     \* 1000 / this.fps
DefaultFps    == 60       \* options.fps || 60
DefaultWidth  == 300      \* options.size || { height: 150, width: 300 }
DefaultHeight == 150

\* the number of clock units in a second (one unit is 5/3 ms)
UnitsPerSecond == (MsPerSecond * 3) \div 5

VARIABLES
    entry,              \* the build that runs: "index" or "ag2d"
    options,            \* options.options, as far as it is read after init(): [fps, backgroundColour]
    size,               \* this.size: [width, height]
    devicePixelRatio,   \* window.devicePixelRatio, a rational [num, den]
    lastUpdate,         \* this.lastUpdate (index.js only; NoTime in ag2d.js)
    lastDraw,           \* this.lastDraw
    canvas,             \* ratio, width/height attributes, style width/height, canvasBounds
    now,                \* window.performance.now()
    phase,              \* "constructed" | "loading" | "running"
    pending,            \* outstanding requestAnimationFrame callbacks
    calls,              \* the calls made by the last handler, in order
    tick,               \* the locals of the last renderLoop invocation
    initialLastUpdate,  \* history: this.lastUpdate as the constructor set it
    initialLastDraw,    \* history: this.lastDraw as the constructor set it
    startedAt,          \* history: the time of the first renderLoop invocation
    draws,              \* history: draw() calls made by renderLoop
    simulated,          \* history: sum of the deltas passed to update()
    repeated,           \* history: the last resizeCanvas call repeated the arguments of the one before
    stale,              \* history: a resize event was dispatched after the last resizeCanvas call
    animation,          \* the outcome of the last Animation(...) construction
    playback            \* the playback state of the animation the animator plays

vars == <<entry, options, size, devicePixelRatio, lastUpdate, lastDraw, canvas, now,
          phase, pending, calls, tick, initialLastUpdate, initialLastDraw, startedAt,
          draws, simulated, repeated, stale, animation, playback>>

\* the variables of the animation model (models/Animation.js and the animator)
animationVars == <<animation, playback>>

NoTime == 0 - 1

\* --------------------------------------------------------------- rationals
Rat(n, d) == [num |-> n, den |-> d]
RatEq(a, b) == a.num * b.den = b.num * a.den
RatLt(a, b) == a.num * b.den < b.num * a.den      \* denominators are positive
RatLe(a, b) == a.num * b.den <= b.num * a.den
RatMul(a, b) == Rat(a.num * b.num, a.den * b.den)
RatAdd(a, b) == Rat(a.num * b.den + b.num * a.den, a.den * b.den)
RatMin(a, b) == IF RatLe(a, b) THEN a ELSE b

Abs(x) == IF x < 0 THEN -x ELSE x
Min(a, b) == IF a <= b THEN a ELSE b

\* JavaScript's a % b: the result has the sign of the dividend
JsMod(a, b) == IF a >= 0 THEN a % Abs(b) ELSE -((-a) % Abs(b))

\* Math.floor(n / d) and Math.round(n / d) (halves round up), d > 0, n of either sign
Floor(n, d) == n \div d
Round(n, d) == (2 * n + d) \div (2 * d)

\* ----------------------------------------------------------- configuration
FpsOptions == {0, 150}
Densities == {Rat(1, 1), Rat(2, 1), Rat(3, 2)}

\* this.fps = this.options.options.fps || 60
fps == IF options.fps = 0 THEN DefaultFps ELSE options.fps

\* this.interval = 1000 / this.fps, in clock units
interval == IF fps > 0 THEN UnitsPerSecond \div fps ELSE -(UnitsPerSecond \div (-fps))

\* ------------------------------------------------------------- canvas fit
CropsWidthReversed(width, height) == width * size.height < height * size.width

\* index.js resizeCanvas: `ratio > destRatio`, with ratio = width / height and
\* destRatio = this.size.width / this.size.height (a positive logical size).  For a
\* height of 0 the ratio is Infinity (width > 0), -Infinity (width < 0) or NaN (0 / 0),
\* and only Infinity compares greater; for a negative height the division turns the
\* comparison around.
CropsWidth(width, height) ==
    IF height > 0 THEN width * size.height > height * size.width
    ELSE IF height = 0 THEN width > 0
    ELSE width * size.height < height * size.width

FitWidthFromBounds(width, height) ==
    IF CropsWidth(width, height)
       THEN Floor(canvas.canvasBounds.height * size.width, size.height)
       ELSE width

\* the width after the crop: Math.floor(height * destRatio), or the width given
FitWidth(width, height) ==
    IF CropsWidth(width, height) THEN Floor(height * size.width, size.height) ELSE width

\* the height after the crop: the height given, or Math.floor(width / destRatio)
FitHeight(width, height) ==
    IF CropsWidth(width, height) THEN height ELSE Floor(width * size.height, size.width)

PixelLengthFloor(length) == Floor(length * devicePixelRatio.num, devicePixelRatio.den)

\* Math.round(length * window.devicePixelRatio)
PixelLength(length) == Round(length * devicePixelRatio.num, devicePixelRatio.den)

\* index.js resizeCanvas(width, height): the canvas it leaves, as the values the code
\* passes to setAttribute and assigns to style.  canvasBounds is
\* getBoundingClientRect() of an element whose CSS size was just set.
resizeCanvas(width, height) ==
    LET w == FitWidth(width, height)
        h == FitHeight(width, height)
    IN  [ratio       |-> Rat(w, size.width),
         attrWidth   |-> PixelLength(w),
         attrHeight  |-> PixelLength(h),
         styleWidth  |-> w,
         styleHeight |-> h,
         canvasBounds |-> [width |-> w, height |-> h]]

\* ag2d.js resizeCanvas(width, height): no fit, no ratio, no bounds
ag2dResizeCanvas(width, height) ==
    [attrWidth   |-> PixelLength(width),
     attrHeight  |-> PixelLength(height),
     styleWidth  |-> width,
     styleHeight |-> height]

\* the canvas element before any resizeCanvas
Unsized == [unsized |-> TRUE]

\* ------------------------------------------------------------ call records
Call(op) == <<op>>
CallWith(op, arg) == <<op, arg>>
Op(c) == c[1]

clearCanvasAlwaysFills ==
    <<Call("context.clearRect"),
      CallWith("context.fillStyle", options.backgroundColour), Call("context.fillRect")>>

\* index.js clearCanvas / ag2d.js clearCanvas: clearRect, and a fill unless transparent
clearCanvas ==
    <<Call("context.clearRect")>> \o
    (IF options.backgroundColour # "transparent"
        THEN <<CallWith("context.fillStyle", options.backgroundColour), Call("context.fillRect")>>
        ELSE <<>>)

updateWithoutAnimator(deltaTime) ==
    <<CallWith("update", deltaTime), CallWith("options.update", deltaTime)>>

\* index.js update(deltaTime): animator first, then the user's update
update(deltaTime) ==
    <<CallWith("update", deltaTime),
      CallWith("animator.update", deltaTime),
      CallWith("options.update", deltaTime)>>

\* ag2d.js update(deltaTime)
ag2dUpdate(deltaTime) ==
    <<CallWith("update", deltaTime), CallWith("options.update", deltaTime)>>

\* index.js draw(): the context is scaled by devicePixelRatio * this.ratio
draw(ratio) ==
    <<Call("draw"), Call("context.save"),
      CallWith("context.scale", RatMul(devicePixelRatio, ratio))>>
    \o clearCanvas \o <<Call("options.draw"), Call("context.restore")>>

\* ag2d.js draw(): the context is scaled by devicePixelRatio alone
ag2dDraw ==
    <<Call("draw"), Call("context.save"), CallWith("context.scale", devicePixelRatio)>>
    \o clearCanvas \o <<Call("options.draw"), Call("context.restore")>>

\* ------------------------------------------------------------- render loop
NoTick == [timeNow |-> NoTime, updateDeltaTime |-> 0, drawDeltaTime |-> 0, drew |-> FALSE]

Durations == 0 .. MaxStep

ShouldDrawAtInterval(drawDeltaTime) == drawDeltaTime >= interval
ShouldDrawBelowInterval(drawDeltaTime) == drawDeltaTime < interval

\* `if (drawDeltaTime > this.interval)` (index.js), `if (deltaTime > this.interval)` (ag2d.js)
ShouldDraw(drawDeltaTime) == drawDeltaTime > interval

\* index.js: this.lastUpdate = window.performance.now(), read after update() returned
NextLastUpdate(timeNow, afterUpdate) == afterUpdate

NextLastDrawNotAdvanced(timeNow, afterDraw, drawDeltaTime) == timeNow - drawDeltaTime

\* index.js: this.lastDraw = window.performance.now() - (drawDeltaTime % this.interval),
\* read after draw() returned
NextLastDraw(timeNow, afterDraw, drawDeltaTime) == afterDraw - JsMod(drawDeltaTime, interval)

\* ag2d.js: this.lastDraw = timeNow - (deltaTime % this.interval)
ag2dNextLastDraw(timeNow, afterDraw, deltaTime) == timeNow - JsMod(deltaTime, interval)

\* history counters saturate, they never restrict the program
DrawsCap == (MaxTime \div Abs(interval)) + 1
SimulatedCap == MaxTime + 1

LoopCallsRequestLast(updateCalls, drawing, drawCalls) ==
    updateCalls \o (IF drawing THEN drawCalls ELSE <<>>)
    \o <<Call("requestAnimationFrame")>>

\* renderLoop (either build): requestAnimationFrame first, update on every
\* invocation, then draw when the draw delta is over the interval
LoopCallsUpdateOnDraw(updateCalls, drawing, drawCalls) ==
    <<Call("requestAnimationFrame")>>
    \o (IF drawing THEN updateCalls \o drawCalls ELSE <<>>)

LoopCalls(updateCalls, drawing, drawCalls) ==
    <<Call("requestAnimationFrame")>> \o updateCalls
    \o (IF drawing THEN drawCalls ELSE <<>>)

\* index.js renderLoop(), entered at clock time timeNow after the calls `before`;
\* update() takes du, draw() takes dd.  `consumed` is the host callback it runs as
\* (0 when setUpCanvas calls it directly).
renderLoop(timeNow, before, ratio, du, dd, consumed) ==
    LET drawDeltaTime   == timeNow - lastDraw
        updateDeltaTime == timeNow - lastUpdate
        afterUpdate     == timeNow + du
        drawing         == ShouldDraw(drawDeltaTime)
        afterDraw       == IF drawing THEN afterUpdate + dd ELSE afterUpdate
    IN  /\ afterDraw <= MaxTime
        /\ pending' = pending - consumed + 1
        /\ lastUpdate' = NextLastUpdate(timeNow, afterUpdate)
        /\ lastDraw' = IF drawing THEN NextLastDraw(timeNow, afterDraw, drawDeltaTime)
                                  ELSE lastDraw
        /\ now' = afterDraw
        /\ calls' = before \o LoopCalls(update(updateDeltaTime), drawing, draw(ratio))
        /\ tick' = [timeNow |-> timeNow, updateDeltaTime |-> updateDeltaTime,
                    drawDeltaTime |-> drawDeltaTime, drew |-> drawing]
        /\ draws' = IF drawing THEN Min(draws + 1, DrawsCap) ELSE draws
        /\ simulated' = Min(simulated + updateDeltaTime, SimulatedCap)
        /\ startedAt' = IF startedAt = NoTime THEN timeNow ELSE startedAt

\* ag2d.js renderLoop(): one delta, measured from lastDraw, for update and draw
ag2dRenderLoop(timeNow, before, du, dd, consumed) ==
    LET deltaTime   == timeNow - lastDraw
        afterUpdate == timeNow + du
        drawing     == ShouldDraw(deltaTime)
        afterDraw   == IF drawing THEN afterUpdate + dd ELSE afterUpdate
    IN  /\ afterDraw <= MaxTime
        /\ pending' = pending - consumed + 1
        /\ lastUpdate' = lastUpdate
        /\ lastDraw' = IF drawing THEN ag2dNextLastDraw(timeNow, afterDraw, deltaTime)
                                  ELSE lastDraw
        /\ now' = afterDraw
        /\ calls' = before \o LoopCalls(ag2dUpdate(deltaTime), drawing, ag2dDraw)
        /\ tick' = [timeNow |-> timeNow, updateDeltaTime |-> deltaTime,
                    drawDeltaTime |-> deltaTime, drew |-> drawing]
        /\ draws' = IF drawing THEN Min(draws + 1, DrawsCap) ELSE draws
        /\ simulated' = Min(simulated + deltaTime, SimulatedCap)
        /\ startedAt' = IF startedAt = NoTime THEN timeNow ELSE startedAt

\* ----------------------------------------------------------------- start-up
\* index.js inject(): the references it assigns onto the user content (options)
Injected ==
    {"canvas", "context", "assetLoader", "keyManager", "sceneManager", "animator",
     "resizeCanvas"}

\* ag2d.js inject()
ag2dInjected == {"canvas", "context", "resizeCanvas"}

SetUpCallsInitFirst(width, height) ==
    <<Call("options.init"), CallWith("resizeCanvas", <<width, height>>),
      CallWith("inject", Injected), Call("bindEventListeners"), Call("options.draw")>>

\* the calls of index.js setUpCanvas before renderLoop.  resizeCanvas is the call that
\* assigns options.ratio and options.canvasBounds (with this.ratio, this.canvasBounds).
SetUpCalls(width, height) ==
    <<CallWith("resizeCanvas", <<width, height>>), CallWith("inject", Injected),
      Call("bindEventListeners"), Call("options.init"), Call("options.draw")>>

\* the calls of ag2d.js init before renderLoop
ag2dSetUpCalls(width, height) ==
    <<CallWith("resizeCanvas", <<width, height>>), CallWith("inject", ag2dInjected),
      Call("bindEventListeners"), Call("options.init"), Call("options.draw")>>

\* index.js setUpCanvas(), entered after the calls `before`: resizeCanvas to the logical
\* size, inject, bindEventListeners, options.init(), options.draw() (together they take
\* di), then the first renderLoop(), called directly
setUpCanvas(before) ==
    \E di \in Durations, du \in Durations, dd \in Durations :
        /\ canvas' = resizeCanvas(size.width, size.height)
        /\ repeated' = FALSE
        /\ stale' = FALSE
        /\ phase' = "running"
        /\ renderLoop(now + di, before \o SetUpCalls(size.width, size.height),
                      canvas'.ratio, du, dd, 0)

\* the constructor's field assignments (index.js 23-35, ag2d.js 17-27), up to `this.init()`:
\* lastUpdate and lastDraw are two readings of the clock
Constructed(t0, d) ==
    /\ now = t0 + d
    /\ lastUpdate = (IF entry = "index" THEN t0 ELSE NoTime)
    /\ lastDraw = t0 + d
    /\ initialLastUpdate = lastUpdate
    /\ initialLastDraw = lastDraw
    /\ canvas = Unsized
    /\ phase = "constructed"
    /\ pending = 0
    /\ calls = <<>>
    /\ tick = NoTick
    /\ startedAt = NoTime
    /\ draws = 0
    /\ simulated = 0
    /\ repeated = FALSE
    /\ stale = FALSE

\* the options the engine keeps reading after construction.  options.waitForAssets and
\* options.assets are read by init() alone and are chosen there.
Configurations == [fps : FpsOptions, backgroundColour : {"transparent"}]

\* no Animation has been constructed, the animator plays nothing
NoAnimation == [outcome |-> "none"]
NoPlayback == [playing |-> FALSE]

\* new AG2D(canvas, options) with the options drawn from `configurations`, up to the
\* constructor's call of init()
Construction(configurations) ==
    /\ entry \in {"index", "ag2d"}
    /\ options \in configurations
    /\ size = [width |-> DefaultWidth, height |-> DefaultHeight]
    /\ devicePixelRatio = Rat(1, 1)
    /\ \E d \in Durations :
          /\ entry = "ag2d" => d = 0
          /\ Constructed(StartTime, d)
    /\ animation = NoAnimation
    /\ playback = NoPlayback

Init == Construction(Configurations)

\* `this.waitForAssets && this.options.options.assets` (index.js init)
Deferred(waitForAssets, assets) == waitForAssets /\ assets

\* index.js init(): loadModules, then setUpCanvas at once or, when waitForAssets and
\* assets are both configured, from the asset loader's callback
init ==
    /\ entry = "index"
    /\ phase = "constructed"
    /\ \E waitForAssets \in BOOLEAN, assets \in BOOLEAN :
          IF Deferred(waitForAssets, assets)
             THEN /\ phase' = "loading"
                  /\ calls' = <<Call("loadModules"), Call("assetLoader.addAssets"),
                                Call("assetLoader.loadAssets")>>
                  /\ UNCHANGED <<lastUpdate, lastDraw, canvas, now, pending, tick,
                                 startedAt, draws, simulated, repeated, stale>>
             ELSE setUpCanvas(<<Call("loadModules")>>)
    /\ UNCHANGED <<entry, options, size, devicePixelRatio, initialLastUpdate,
                   initialLastDraw, animationVars>>

\* index.js init(): the callback given to assetLoader.loadAssets
AssetsLoaded ==
    /\ entry = "index"
    /\ phase = "loading"
    /\ setUpCanvas(<<>>)
    /\ UNCHANGED <<entry, options, size, devicePixelRatio, initialLastUpdate,
                   initialLastDraw, animationVars>>

\* ag2d.js init(): resizeCanvas, inject, bindEventListeners, options.init(),
\* options.draw(), renderLoop()
ag2dInit ==
    /\ entry = "ag2d"
    /\ phase = "constructed"
    /\ \E di \in Durations, du \in Durations, dd \in Durations :
        /\ canvas' = ag2dResizeCanvas(size.width, size.height)
        /\ repeated' = FALSE
        /\ stale' = FALSE
        /\ phase' = "running"
        /\ ag2dRenderLoop(now + di, ag2dSetUpCalls(size.width, size.height), du, dd, 0)
    /\ UNCHANGED <<entry, options, size, devicePixelRatio, initialLastUpdate,
                   initialLastDraw, animationVars>>

\* the host runs one requested animation-frame callback: renderLoop
HostTick ==
    /\ phase = "running"
    /\ pending > 0
    /\ \E du \in Durations, dd \in Durations :
          IF entry = "index"
             THEN renderLoop(now, <<>>, canvas.ratio, du, dd, 1)
             ELSE ag2dRenderLoop(now, <<>>, du, dd, 1)
    /\ UNCHANGED <<entry, options, size, devicePixelRatio, canvas, phase,
                   initialLastUpdate, initialLastDraw, repeated, stale, animationVars>>

\* a caller invokes stop() on the engine.  Neither build defines stop and neither keeps
\* the id requestAnimationFrame returned: the call throws a TypeError and changes nothing
stop ==
    /\ phase = "running"
    /\ calls' = <<Call("stop")>>
    /\ UNCHANGED <<entry, options, size, devicePixelRatio, lastUpdate, lastDraw, canvas, now,
                   phase, pending, tick, initialLastUpdate, initialLastDraw, startedAt,
                   draws, simulated, repeated, stale, animationVars>>

\* the clock advances while no handler runs
Elapse ==
    /\ now < MaxTime
    /\ now' = now + 1
    /\ UNCHANGED <<entry, options, size, devicePixelRatio, lastUpdate, lastDraw, canvas,
                   phase, pending, calls, tick, initialLastUpdate, initialLastDraw,
                   startedAt, draws, simulated, repeated, stale, animationVars>>

Next ==
    \/ init
    \/ AssetsLoaded
    \/ ag2dInit
    \/ HostTick
    \/ stop
    \/ Elapse

Spec == Init /\ [][Next]_vars

\* ------------------------------------------------------------ hooks that throw
\* the calls made up to the point where the user's hook `hook` throws: the calls up to
\* its first call, and the throw
UpToThrow(c, hook) ==
    SubSeq(c, 1, CHOOSE i \in DOMAIN c :
                    /\ Op(c[i]) = hook
                    /\ \A j \in 1 .. i - 1 : Op(c[j]) # hook)
    \o <<CallWith("throw", hook)>>

\* the user hooks renderLoop calls
Hooks == {"options.update", "options.draw"}

\* a host tick in which the user's update or draw throws.  Neither renderLoop, update
\* nor draw has a try: the error leaves renderLoop at once, to the host.  What ran
\* before the throw has taken effect: the requestAnimationFrame call, and (when it is
\* draw that throws) the assignment of lastUpdate; lastDraw is not assigned.
HostTickThrows ==
    /\ phase = "running"
    /\ pending > 0
    /\ \E hook \in Hooks, du \in Durations, dd \in Durations :
          LET timeNow     == now
              drawDelta   == timeNow - lastDraw
              updateDelta == IF entry = "index" THEN timeNow - lastUpdate ELSE drawDelta
              drawing     == ShouldDraw(drawDelta)
              all         == IF entry = "index"
                                THEN LoopCalls(update(updateDelta), drawing, draw(canvas.ratio))
                                ELSE LoopCalls(ag2dUpdate(updateDelta), drawing, ag2dDraw)
              inDraw      == hook = "options.draw"
              thrownAt    == IF inDraw THEN timeNow + du + dd ELSE timeNow + du
          IN  /\ inDraw => drawing
              /\ thrownAt <= MaxTime
              /\ calls' = UpToThrow(all, hook)
              /\ pending' = pending - 1
                    + Cardinality({i \in DOMAIN calls' :
                                      Op(calls'[i]) = "requestAnimationFrame"})
              /\ lastUpdate' = IF entry = "index" /\ inDraw
                                   THEN NextLastUpdate(timeNow, timeNow + du)
                                   ELSE lastUpdate
              /\ now' = thrownAt
              /\ tick' = [timeNow |-> timeNow, updateDeltaTime |-> updateDelta,
                          drawDeltaTime |-> drawDelta, drew |-> inDraw]
              /\ draws' = IF inDraw THEN Min(draws + 1, DrawsCap) ELSE draws
              /\ simulated' = Min(simulated + updateDelta, SimulatedCap)
    /\ UNCHANGED <<entry, options, size, devicePixelRatio, lastDraw, canvas, phase,
                   initialLastUpdate, initialLastDraw, startedAt, repeated, stale,
                   animationVars>>

NextFault ==
    \/ init
    \/ AssetsLoaded
    \/ ag2dInit
    \/ HostTick
    \/ HostTickThrows
    \/ Elapse

\* the engine as configured by default: no fps given (60), no background colour
DefaultConfigurations == [fps : {0}, backgroundColour : {"transparent"}]

InitFault == Construction(DefaultConfigurations)

FaultSpec == InitFault /\ [][NextFault]_vars

\* an engine configured with or without a background colour
ColourConfigurations == [fps : FpsOptions, backgroundColour : {"transparent", "black"}]

InitColour == Construction(ColourConfigurations)

ColourSpec == InitColour /\ [][Next]_vars

\* an engine configured with an fps of 0 or a negative fps.  The constructor does not
\* test options.fps: 0 is falsy and becomes 60, a negative fps is kept and
\* 1000 / this.fps is a negative interval.
NonPositiveFpsConfigurations == [fps : {0 - 150, 0}, backgroundColour : {"transparent"}]

InitNonPositiveFps == Construction(NonPositiveFpsConfigurations)

NonPositiveFpsSpec == InitNonPositiveFps /\ [][Next]_vars

\* ---------------------------------------------------------- resize events
\* the window size a resize event reports: a square window, as high as the default
\* logical size
WindowSizes == {<<DefaultHeight, DefaultHeight>>}

\* what the user content's resize hook is: not supplied, supplied and leaving the canvas
\* alone, or supplied and calling the injected resizeCanvas with the window's size
ResizeHooks == {"none", "ignores", "refits"}

\* the `resize` listener that bindEventListeners added (index.js: it calls
\* options.resize when the user content has one, and nothing else; ag2d.js: it calls
\* options.resize, a TypeError when there is none).  The injected resizeCanvas of
\* ag2d.js is not bound, and called on the user content it finds the injected canvas.
ResizeEvent ==
    /\ phase = "running"
    /\ \E hook \in ResizeHooks, window \in WindowSizes :
          /\ calls' = <<CallWith("resize", window)>>
                \o (CASE hook = "none" ->
                            IF entry = "index" THEN <<>> ELSE <<Call("TypeError")>>
                       [] hook = "ignores" -> <<Call("options.resize")>>
                       [] hook = "refits" ->
                            <<Call("options.resize"), CallWith("resizeCanvas", window)>>)
          /\ canvas' = IF hook = "refits"
                          THEN IF entry = "index" THEN resizeCanvas(window[1], window[2])
                                                  ELSE ag2dResizeCanvas(window[1], window[2])
                          ELSE canvas
          /\ stale' = (hook # "refits")
    /\ UNCHANGED <<entry, options, size, devicePixelRatio, lastUpdate, lastDraw, now,
                   phase, pending, tick, initialLastUpdate, initialLastDraw, startedAt,
                   draws, simulated, repeated, animationVars>>

NextResize ==
    \/ init
    \/ AssetsLoaded
    \/ ag2dInit
    \/ HostTick
    \/ ResizeEvent
    \/ Elapse

ResizeSpec == Init /\ [][NextResize]_vars

\* ------------------------------------------------------- the fit on its own
\* The engine (index.js) constructed and started at StartTime with a logical size and a
\* pixel density drawn from the bounds; nothing has taken time.  The user content then calls the
\* injected resizeCanvas with container sizes.
Started(sizes, densities) ==
    /\ entry = "index"
    /\ options = [fps |-> 0, backgroundColour |-> "transparent"]
    /\ size \in sizes
    /\ devicePixelRatio \in densities
    /\ now = StartTime
    /\ lastUpdate = StartTime
    /\ lastDraw = StartTime
    /\ initialLastUpdate = StartTime
    /\ initialLastDraw = StartTime
    /\ canvas = resizeCanvas(size.width, size.height)
    /\ phase = "running"
    /\ pending = 1
    /\ calls = <<Call("loadModules")>> \o SetUpCalls(size.width, size.height)
                  \o LoopCalls(update(0), FALSE, <<>>)
    /\ tick = [timeNow |-> StartTime, updateDeltaTime |-> 0, drawDeltaTime |-> 0,
               drew |-> FALSE]
    /\ startedAt = StartTime
    /\ draws = 0
    /\ simulated = 0
    /\ repeated = FALSE
    /\ stale = FALSE
    /\ animation = NoAnimation
    /\ playback = NoPlayback

InitFit == Started([width : 1 .. MaxDim, height : 1 .. MaxDim], Densities)

\* the arguments of the resizeCanvas call in a call record
Arguments(c) == c[CHOOSE i \in DOMAIN c : Op(c[i]) = "resizeCanvas"][2]

\* a call of index.js resizeCanvas(width, height) through the bound reference that
\* inject() handed to the user content
CallResizeCanvas(width, height) ==
    /\ canvas' = resizeCanvas(width, height)
    /\ calls' = <<CallWith("resizeCanvas", <<width, height>>)>>
    /\ repeated' = ((\E i \in DOMAIN calls : Op(calls[i]) = "resizeCanvas")
                       /\ Arguments(calls) = <<width, height>>)
    /\ stale' = FALSE

\* the user content calls options.resizeCanvas(width, height) with a container size
Resize ==
    /\ entry = "index"
    /\ phase = "running"
    /\ \E width \in 1 .. MaxDim, height \in 1 .. MaxDim :
          CallResizeCanvas(width, height)
    /\ UNCHANGED <<entry, options, size, devicePixelRatio, lastUpdate, lastDraw, now,
                   phase, pending, tick, initialLastUpdate, initialLastDraw, startedAt,
                   draws, simulated, animationVars>>

NextFit == Resize

FitSpec == InitFit /\ [][NextFit]_vars

\* the lengths a caller can pass for a container that has collapsed: zero, or a
\* negative number
NonPositive == {0 - 1, 0}

\* the user content calls options.resizeCanvas(width, height) with a container of which
\* the width or the height (or both) is zero or negative.  resizeCanvas does not test
\* its arguments.
ResizeNonPositive ==
    /\ entry = "index"
    /\ phase = "running"
    /\ \E width \in NonPositive \cup (1 .. MaxDim), height \in NonPositive \cup (1 .. MaxDim) :
          /\ width \in NonPositive \/ height \in NonPositive
          /\ CallResizeCanvas(width, height)
    /\ UNCHANGED <<entry, options, size, devicePixelRatio, lastUpdate, lastDraw, now,
                   phase, pending, tick, initialLastUpdate, initialLastDraw, startedAt,
                   draws, simulated, animationVars>>

NextViewport ==
    \/ Resize
    \/ ResizeNonPositive

ViewportSpec == InitFit /\ [][NextViewport]_vars

\* -------------------------------------------------------------- animations
\* models/Animation.js: the schema handed to PropertyValidator
AnimationSchemaSpriteSheetOptional ==
    [context     |-> [type |-> "any", required |-> TRUE],
     fps         |-> [type |-> "number", required |-> FALSE, default |-> 60],
     frames      |-> [type |-> "array", required |-> TRUE],
     loop        |-> [type |-> "boolean", required |-> FALSE, default |-> TRUE],
     name        |-> [type |-> "string", required |-> TRUE],
     spriteSheet |-> [type |-> "object", required |-> FALSE, default |-> "none"]]

AnimationSchema ==
    [context     |-> [type |-> "any", required |-> TRUE],
     fps         |-> [type |-> "number", required |-> FALSE, default |-> 60],
     frames      |-> [type |-> "array", required |-> TRUE],
     loop        |-> [type |-> "boolean", required |-> FALSE, default |-> TRUE],
     name        |-> [type |-> "string", required |-> TRUE],
     spriteSheet |-> [type |-> "object", required |-> TRUE]]

\* the fields a schema requires
Required(schema) == {f \in DOMAIN schema : schema[f].required}

\* modules/PropertyValidator (the module is not among the sources; its behaviour is
\* the construction interface of the specification): a record that lacks a required
\* field fails with InvalidConfiguration and yields no definition; otherwise the
\* definition is the record, with the schema's default for every field it omits.  The
\* records constructed here are well typed.
PropertyValidator(schema, record) ==
    IF Required(schema) \ DOMAIN record # {}
       THEN [outcome |-> "InvalidConfiguration"]
       ELSE [outcome |-> "constructed",
             definition |-> [f \in DOMAIN schema |->
                                IF f \in DOMAIN record THEN record[f]
                                                       ELSE schema[f].default]]

\* new Animation(record)
Animation(record) == PropertyValidator(AnimationSchema, record)

\* frames per second a record supplies, and the frames: n sub-rectangles of the sheet
AnimationFps == {10, 20}
Frames(n) == [i \in 1 .. n |-> i]

\* milliseconds in clock units (1000 ms are UnitsPerSecond units)
Ms(ms) == (ms * UnitsPerSecond) \div MsPerSecond

\* the deltas update() is called with: multiples of 25 ms, up to MaxDeltaSteps of them
Deltas == {k * Ms(25) : k \in 0 .. MaxDeltaSteps}

\* the animator (modules/Animator is not among the sources; the playback state and its
\* operations are those of the specification's AnimationPlayer)
startPlayback(definition) ==
    [playing |-> TRUE, currentFrameIndex |-> 0, elapsedInFrame |-> 0, finished |-> FALSE]

\* 1000 / definition.fps, in clock units
frameDurationMs(definition) == UnitsPerSecond \div definition.fps

\* the loop of advance: while elapsedInFrame >= frameDurationMs, consume one frame
\* duration and step; past the last frame wrap (loop) or clamp, finish and break
RECURSIVE Consume(_, _)
Consume(state, definition) ==
    LET duration == frameDurationMs(definition)
        last == Len(definition.frames) - 1
        elapsed == state.elapsedInFrame - duration
        index == state.currentFrameIndex + 1
    IN  IF state.elapsedInFrame < duration THEN state
        ELSE IF index <= last
                THEN Consume([state EXCEPT !.elapsedInFrame = elapsed,
                                           !.currentFrameIndex = index], definition)
        ELSE IF definition.loop
                THEN Consume([state EXCEPT !.elapsedInFrame = elapsed,
                                           !.currentFrameIndex = 0], definition)
        ELSE [state EXCEPT !.elapsedInFrame = elapsed, !.currentFrameIndex = last,
                           !.finished = TRUE]

\* advance(state, deltaMs)
advance(state, definition, deltaMs) ==
    IF state.finished THEN state
    ELSE Consume([state EXCEPT !.elapsedInFrame = @ + deltaMs], definition)

\* the playback state after the animator.update calls of a call record, in order
RECURSIVE Animate(_, _, _)
Animate(c, state, definition) ==
    IF c = <<>> THEN state
    ELSE Animate(Tail(c),
                 IF Op(Head(c)) = "animator.update"
                    THEN advance(state, definition, Head(c)[2]) ELSE state,
                 definition)

\* the user content constructs an Animation from a record that supplies the fields D,
\* before it plays one (the outcome does not depend on what was constructed before)
NewAnimation ==
    /\ phase = "running"
    /\ ~playback.playing
    /\ \E D \in SUBSET (DOMAIN AnimationSchema), f \in AnimationFps, n \in 1 .. MaxFrames,
          l \in BOOLEAN :
          LET full == [context |-> "2d", fps |-> f, frames |-> Frames(n), loop |-> l,
                       name |-> "walk", spriteSheet |-> "sheet"]
              record == [x \in D |-> full[x]]
          IN  /\ animation' = Animation(record)
              /\ calls' = <<CallWith("Animation", record)>>
    /\ playback' = NoPlayback
    /\ UNCHANGED <<entry, options, size, devicePixelRatio, lastUpdate, lastDraw, canvas,
                   now, phase, pending, tick, initialLastUpdate, initialLastDraw,
                   startedAt, draws, simulated, repeated, stale>>

\* the user content starts (or restarts) the animation it constructed
Play ==
    /\ phase = "running"
    /\ animation.outcome = "constructed"
    /\ playback' = startPlayback(animation.definition)
    /\ calls' = <<Call("animator.start")>>
    /\ UNCHANGED <<entry, options, size, devicePixelRatio, lastUpdate, lastDraw, canvas,
                   now, phase, pending, tick, initialLastUpdate, initialLastDraw,
                   startedAt, draws, simulated, repeated, stale, animation>>

\* index.js update(deltaTime), as a tick calls it: animator.update(deltaTime) advances
\* the animation that plays, then the user's update runs
Advance ==
    /\ phase = "running"
    /\ playback.playing
    /\ \E deltaTime \in Deltas :
          /\ calls' = update(deltaTime)
          /\ playback' = Animate(calls', playback, animation.definition)
    /\ UNCHANGED <<entry, options, size, devicePixelRatio, lastUpdate, lastDraw, canvas,
                   now, phase, pending, tick, initialLastUpdate, initialLastDraw,
                   startedAt, draws, simulated, repeated, stale, animation>>

NextAnimation ==
    \/ NewAnimation
    \/ Play
    \/ Advance

InitAnimation ==
    Started({[width |-> DefaultWidth, height |-> DefaultHeight]}, {Rat(1, 1)})

AnimationSpec == InitAnimation /\ [][NextAnimation]_vars

\* ------------------------------------------------------------------ claims
\* the positions of the calls of `op` in a call record
Positions(c, op) == {i \in DOMAIN c : Op(c[i]) = op}

\* the last handler ran renderLoop
RanLoop == Positions(calls, "requestAnimationFrame") # {}

\* a step that runs renderLoop: a host tick, or the start-up that calls it directly
LoopStep ==
    \/ HostTick
    \/ AssetsLoaded
    \/ ag2dInit
    \/ init /\ phase' = "running"

\* C1: every renderLoop invocation calls update exactly once, whether or not it
\* draws, and calls draw at most once (exactly when the tick draws), only after
\* update and the hooks update calls have been called.
C1_UpdateOncePerTick ==
    RanLoop =>
        LET start   == Positions(calls, "requestAnimationFrame")
            updates == Positions(calls, "update")
            hooks   == Positions(calls, "options.update")
            drawn   == Positions(calls, "draw")
        IN  /\ Cardinality(start) = 1
            /\ Cardinality(updates) = 1
            /\ Cardinality(hooks) = 1
            /\ Cardinality(drawn) <= 1
            /\ (drawn # {}) = tick.drew
            /\ \A s \in start, u \in updates : s < u
            /\ \A u \in updates \cup hooks, d \in drawn : u < d

\* C1 witness: a host tick that called update and did not draw, after one that drew
C1_Witness ==
    /\ calls # <<>>
    /\ calls[1] = Call("requestAnimationFrame")
    /\ Positions(calls, "update") # {}
    /\ Positions(calls, "draw") = {}
    /\ draws > 0

\* C2: a renderLoop invocation at time timeNow calls draw if and only if
\* timeNow - lastDraw > interval (strictly); one that does not draw leaves lastDraw
\* as it was.
C2_DrawsIffOverInterval ==
    [][LoopStep =>
         LET drawDelta == tick'.timeNow - lastDraw
         IN  /\ (Positions(calls', "draw") # {}) = (drawDelta > interval)
             /\ drawDelta <= interval => lastDraw' = lastDraw
             /\ phase = "running" => tick'.timeNow = now]_vars

\* C2 witness: after an earlier draw, a tick exactly one interval after lastDraw
\* ran update and did not draw
C2_Witness ==
    /\ RanLoop
    /\ draws > 0
    /\ tick.timeNow - lastDraw = interval
    /\ Positions(calls, "draw") = {}

\* the scheduler-skip example of C2: interval 16.67 ms (10 units), lastDraw stamped at
\* the start, the tick 20 ms (12 units) later draws, and it is the first draw
C2_SkipExample ==
    /\ interval = 10
    /\ tick.drew
    /\ tick.drawDeltaTime = 12
    /\ draws = 1

\* C3: on a tick that draws, lastDraw is set to timeNow - (drawDeltaTime mod interval),
\* timeNow being the tick's one timestamp, however long update and draw ran.
C3_LastDrawAnchoredToTickTime ==
    tick.drew => lastDraw = tick.timeNow - JsMod(tick.drawDeltaTime, interval)

\* C4: with fps > 0, lastDraw differs from the value the constructor gave it by a
\* whole, non-negative number of intervals.
C4_LastDrawOnIntervalGrid ==
    fps > 0 =>
        /\ lastDraw >= initialLastDraw
        /\ (lastDraw - initialLastDraw) % interval = 0

\* C5 (index.js, the build that keeps lastUpdate): the delta passed to update is
\* timeNow - lastUpdate, afterwards lastUpdate is that same timeNow, and so the deltas
\* passed so far sum to the last tick's timeNow less the initial lastUpdate.
C5_DeltasCoverElapsedTime ==
    (entry = "index" /\ RanLoop) =>
        /\ lastUpdate = tick.timeNow
        /\ simulated = tick.timeNow - initialLastUpdate

\* C5, its first part alone: the delta passed to update is timeNow - lastUpdate
C5_DeltaSinceLastUpdate ==
    [][(LoopStep /\ entry = "index") =>
         /\ tick'.updateDeltaTime = tick'.timeNow - lastUpdate
         /\ calls'[CHOOSE i \in Positions(calls', "options.update") : TRUE]
               = CallWith("options.update", tick'.timeNow - lastUpdate)]_vars

C7_LoopStartsAtStampedTime ==
    startedAt # NoTime =>
        /\ initialLastDraw = startedAt
        /\ entry = "index" => initialLastUpdate = startedAt

\* C8: while the loop runs a host tick is requested after every invocation, and once
\* stop() has been called no tick is requested any more.
C8_StopEndsTheLoop ==
    /\ (phase = "running" /\ calls # <<Call("stop")>>) => pending = 1
    /\ calls = <<Call("stop")>> => pending = 0

\* C8, its first part alone: every renderLoop invocation leaves exactly one requested
\* host tick outstanding
C8_AlwaysRerequested == phase = "running" => pending = 1

\* the container size given to the last resizeCanvas call
Container ==
    LET c == calls[CHOOSE i \in Positions(calls, "resizeCanvas") : TRUE][2]
    IN  [width |-> c[1], height |-> c[2]]

\* min(containerW / logicalW, containerH / logicalH)
LetterboxScale ==
    RatMin(Rat(Container.width, size.width), Rat(Container.height, size.height))

\* C9 as claimed: the ratio resizeCanvas stores equals
\* min(containerW / logicalW, containerH / logicalH).
C9_ScaleIsMinOfAxisRatios == RatEq(canvas.ratio, LetterboxScale)

\* C9 amended: the ratio is the fitted width (a whole number of CSS pixels) over the
\* logical width; it never exceeds min(containerW / logicalW, containerH / logicalH)
\* and falls short of it by at most 1 / logicalW; it equals the minimum whenever the
\* height is the cropped axis (a container no wider than the logical aspect ratio).
C9_ScaleWithinFloorOfMin ==
    /\ RatEq(canvas.ratio, Rat(canvas.styleWidth, size.width))
    /\ RatLe(canvas.ratio, LetterboxScale)
    /\ RatLe(LetterboxScale, RatAdd(canvas.ratio, Rat(1, size.width)))
    /\ Container.width * size.height <= Container.height * size.width
          => RatEq(canvas.ratio, LetterboxScale)

\* C9 witness: the width was cropped to a floor below containerH * logicalRatio, and the
\* ratio is strictly less than the minimum of the axis ratios
C9_Witness ==
    /\ calls = <<CallWith("resizeCanvas", <<Container.width, Container.height>>)>>
    /\ Container.width * size.height > Container.height * size.width
    /\ RatLt(canvas.ratio, LetterboxScale)

\* x is Math.round(length * devicePixelRatio): the integer within half of it, halves up
IsRounded(x, length) ==
    /\ (2 * x - 1) * devicePixelRatio.den <= 2 * length * devicePixelRatio.num
    /\ 2 * length * devicePixelRatio.num < (2 * x + 1) * devicePixelRatio.den

\* the fit never exceeds the container; the CSS size is the fit and the backing store is
\* the fit times the pixel density, rounded
FitWithinContainer ==
    /\ canvas.styleWidth <= Container.width
    /\ canvas.styleHeight <= Container.height
    /\ RatEq(canvas.ratio, Rat(canvas.styleWidth, size.width))
    /\ canvas.canvasBounds = [width |-> canvas.styleWidth, height |-> canvas.styleHeight]
    /\ IsRounded(canvas.attrWidth, canvas.styleWidth)
    /\ IsRounded(canvas.attrHeight, canvas.styleHeight)

\* C10 as claimed: the fit never exceeds the container, exactly one axis is left equal
\* to the container's, the CSS size is the fit and the backing store is
\* round(fit * density).
C10_ExactlyOneAxisFills ==
    /\ FitWithinContainer
    /\ (canvas.styleWidth = Container.width) # (canvas.styleHeight = Container.height)

\* C10 amended: the fit never exceeds the container and at least one axis, the one that
\* is not cropped, is left equal to the container's: the height when the container is
\* wider than the logical aspect ratio, the width otherwise (the cropped axis may equal
\* the container's too, as it does when resizeCanvas is given the logical size itself);
\* the CSS size is the fit and the backing store is round(fit * density).
C10_FitWithinContainer ==
    /\ FitWithinContainer
    /\ Container.width * size.height > Container.height * size.width
          => canvas.styleHeight = Container.height
    /\ Container.width * size.height <= Container.height * size.width
          => canvas.styleWidth = Container.width

\* C10 witness: a container narrower than the logical aspect ratio at density 3/2: the
\* height is cropped below the container's, the width fills it, and a backing-store
\* length is a half that rounded up
C10_Witness ==
    /\ calls = <<CallWith("resizeCanvas", <<Container.width, Container.height>>)>>
    /\ canvas.styleWidth = Container.width
    /\ canvas.styleHeight < Container.height
    /\ devicePixelRatio = Rat(3, 2)
    /\ 2 * canvas.attrWidth = 3 * canvas.styleWidth + 1

\* C11: a resizeCanvas call that repeats the arguments of the call before it, the
\* pixel density and the logical size being the same, leaves the ratio, the canvas
\* pixel width and height, the CSS width and height and the bounds as the first call
\* left them, whatever transform was stored before the first.
C11_IdempotentFit ==
    [][(Resize /\ Arguments(calls') = Arguments(calls)) => canvas' = canvas]_vars

\* C11 witness: a repeated call that crops the width, at density 3/2, after which the
\* canvas is the one the first of the two calls computed
C11_Witness ==
    /\ repeated
    /\ calls = <<CallWith("resizeCanvas", Arguments(calls))>>
    /\ canvas.styleWidth < Arguments(calls)[1]
    /\ devicePixelRatio = Rat(3, 2)
    /\ canvas = resizeCanvas(Arguments(calls)[1], Arguments(calls)[2])

\* C12: a resizeCanvas call with a zero or negative container width or height ends in
\* an InvalidViewport error and leaves the ratio, the canvas pixel size, the CSS size
\* and the bounds as they were.
C12_NonPositiveContainerRejected ==
    [][ResizeNonPositive =>
         /\ canvas' = canvas
         /\ Positions(calls', "InvalidViewport") # {}]_vars

\* C13: an engine configured with an fps of 0 or a negative fps fails at construction:
\* the render loop is never started, no host tick is requested, and no tick runs with
\* a zero or negative interval.
C13_NonPositiveFpsRejected ==
    options.fps <= 0 =>
        /\ startedAt = NoTime
        /\ pending = 0
        /\ RanLoop => interval > 0

\* the calls renderLoop makes into update and draw
TickPositions(c) ==
    Positions(c, "requestAnimationFrame") \cup Positions(c, "update")
    \cup Positions(c, "options.update") \cup Positions(c, "draw")

\* C14: when the user content's init() is called, canvas, context, resizeCanvas,
\* assetLoader, keyManager, sceneManager and animator have been injected and
\* resizeCanvas has published canvasBounds (index.js; ag2d.js injects canvas, context
\* and resizeCanvas); renderLoop's update and draw run only after init() has returned,
\* and before the start-up has run (constructed, or waiting for the assets) no tick
\* has run and none is requested.
C14_InjectedBeforeInitBeforeTicks ==
    /\ \A p \in Positions(calls, "options.init") :
          /\ \E q \in Positions(calls, "inject") :
                /\ q < p
                /\ calls[q][2] = (IF entry = "index" THEN Injected ELSE ag2dInjected)
          /\ \E r \in Positions(calls, "resizeCanvas") : r < p
          /\ entry = "index" => "canvasBounds" \in DOMAIN canvas
          /\ \A t \in TickPositions(calls) : p < t
    /\ phase # "running" =>
          /\ TickPositions(calls) = {}
          /\ pending = 0
          /\ startedAt = NoTime
          /\ draws = 0
    /\ RanLoop => phase = "running"

\* C14 witness: the deferred start-up (index.js): the asset loader's callback ran
\* setUpCanvas, which injected, called init() and then ran the first renderLoop
C14_Witness ==
    /\ entry = "index"
    /\ calls # <<>>
    /\ Op(calls[1]) = "resizeCanvas"
    /\ Positions(calls, "options.init") # {}
    /\ RanLoop
    /\ startedAt > initialLastDraw

\* C15: the engine recomputes the fit on every resize event, so a draw never uses a
\* transform computed before the last resize event, whether or not the user content
\* has a resize hook.
C15_DrawUsesFitOfLastResize ==
    /\ Positions(calls, "resize") # {} => Positions(calls, "resizeCanvas") # {}
    /\ (RanLoop /\ tick.drew) => ~stale

\* the record given to the Animation construction the last handler made
Supplied == calls[1][2]

\* C16: a record that lacks context, frames, name or spriteSheet fails construction with
\* InvalidConfiguration and yields no definition; a record with all four yields a
\* definition that has every supplied field as supplied, fps = 60 when the record omits
\* fps and loop = true when it omits loop.
C16_RequiredFieldsAndDefaults ==
    (calls # <<>> /\ Op(calls[1]) = "Animation") =>
        IF {"context", "frames", "name", "spriteSheet"} \ DOMAIN Supplied # {}
           THEN /\ animation.outcome = "InvalidConfiguration"
                /\ DOMAIN animation = {"outcome"}
           ELSE /\ animation.outcome = "constructed"
                /\ DOMAIN animation.definition = DOMAIN AnimationSchema
                /\ \A f \in DOMAIN Supplied : animation.definition[f] = Supplied[f]
                /\ "fps" \notin DOMAIN Supplied => animation.definition.fps = 60
                /\ "loop" \notin DOMAIN Supplied => animation.definition.loop = TRUE

\* C16 witness: a record with every field but spriteSheet was refused
C16_Witness ==
    /\ calls # <<>>
    /\ Op(calls[1]) = "Animation"
    /\ DOMAIN Supplied = DOMAIN AnimationSchema \ {"spriteSheet"}
    /\ animation.outcome = "InvalidConfiguration"

\* the defaults of C16: a record of the four required fields alone gave fps 60, loop true
C16_DefaultsExample ==
    /\ calls # <<>>
    /\ Op(calls[1]) = "Animation"
    /\ DOMAIN Supplied = {"context", "frames", "name", "spriteSheet"}
    /\ animation.outcome = "constructed"
    /\ animation.definition.fps = 60
    /\ animation.definition.loop

\* C17: one update(deltaMs) advances the animation that plays by one frame for every
\* whole frame duration in elapsedInFrame + deltaMs and keeps the rest as
\* elapsedInFrame; a looping animation wraps, a non-looping one stops on its last frame
\* with finished set once the steps pass it, and is not advanced any more; the frame
\* index stays within the frames.  4 frames at 100 ms, not looping, from the start:
\* 250 ms give frame 2 with 50 ms elapsed, 1000 ms give frame 3, finished.
C17_AdvanceStepsWholeFrames ==
    [][Advance =>
         LET deltaMs    == calls'[1][2]
             definition == animation.definition
             count      == Len(definition.frames)
             duration   == UnitsPerSecond \div definition.fps
             total      == playback.elapsedInFrame + deltaMs
             steps      == total \div duration
             target     == playback.currentFrameIndex + steps
         IN  /\ playback'.currentFrameIndex \in 0 .. count - 1
             /\ playback.finished => playback' = playback
             /\ (~playback.finished /\ definition.loop) =>
                   /\ playback'.currentFrameIndex = target % count
                   /\ playback'.elapsedInFrame = total % duration
                   /\ ~playback'.finished
             /\ (~playback.finished /\ ~definition.loop /\ target <= count - 1) =>
                   /\ playback'.currentFrameIndex = target
                   /\ playback'.elapsedInFrame = total % duration
                   /\ ~playback'.finished
             /\ (~playback.finished /\ ~definition.loop /\ target > count - 1) =>
                   /\ playback'.currentFrameIndex = count - 1
                   /\ playback'.finished
             /\ (count = 4 /\ ~definition.loop /\ definition.fps = 10
                    /\ playback = startPlayback(definition)) =>
                   /\ deltaMs = Ms(250) =>
                         /\ playback'.currentFrameIndex = 2
                         /\ playback'.elapsedInFrame = Ms(50)
                         /\ ~playback'.finished
                   /\ deltaMs = Ms(1000) =>
                         /\ playback'.currentFrameIndex = 3
                         /\ playback'.finished]_vars

\* C17 witness: 4 frames at 100 ms, not looping: the one update that can leave frame 2
\* with 50 ms elapsed is update(250 ms) from the start
C17_Witness ==
    /\ calls = update(Ms(250))
    /\ animation.outcome = "constructed"
    /\ Len(animation.definition.frames) = 4
    /\ animation.definition.fps = 10
    /\ ~animation.definition.loop
    /\ playback.playing
    /\ playback.currentFrameIndex = 2
    /\ playback.elapsedInFrame = Ms(50)
    /\ ~playback.finished

\* C17, the stall on the last frame: an update of 1000 ms finished the animation
C17_FinishedExample ==
    /\ calls = update(Ms(1000))
    /\ playback.playing
    /\ playback.finished
    /\ playback.currentFrameIndex = Len(animation.definition.frames) - 1

\* the calls of c from position i on, at most n of them
From(c, i, n) == SubSeq(c, i, Min(Len(c), i + n - 1))

\* C18: update(delta) calls the animator's update and then the user's update, both
\* with that delta (ag2d.js has no animator); draw() calls context.save, context.scale
\* by the pixel density times the fit ratio (ag2d.js: by the pixel density),
\* clearRect, then fillStyle and fillRect when and only when the background colour is
\* not 'transparent', the user's draw, and context.restore, so that the saves and the
\* restores of a handler pair up.
C18_OrderOfEffects ==
    /\ \A u \in Positions(calls, "update") :
          LET delta == calls[u][2]
          IN  IF entry = "index"
                 THEN From(calls, u + 1, 2) = <<CallWith("animator.update", delta),
                                                CallWith("options.update", delta)>>
                 ELSE From(calls, u + 1, 1) = <<CallWith("options.update", delta)>>
    /\ \A d \in Positions(calls, "draw") :
          LET scale == IF entry = "index" THEN RatMul(devicePixelRatio, canvas.ratio)
                                          ELSE devicePixelRatio
              fill  == IF options.backgroundColour = "transparent" THEN <<>>
                       ELSE <<CallWith("context.fillStyle", options.backgroundColour),
                              Call("context.fillRect")>>
              body  == <<Call("context.save"), CallWith("context.scale", scale),
                         Call("context.clearRect")>>
                       \o fill \o <<Call("options.draw"), Call("context.restore")>>
          IN  From(calls, d + 1, Len(body)) = body
    /\ Cardinality(Positions(calls, "context.save"))
          = Cardinality(Positions(calls, "context.restore"))
    /\ Cardinality(Positions(calls, "context.save"))
          = Cardinality(Positions(calls, "draw"))

\* C18 witness: a host tick, not the first to draw, that ran update and then drew on a
\* black background, with the fill
C18_Witness ==
    /\ RanLoop
    /\ tick.drew
    /\ options.backgroundColour = "black"
    /\ Positions(calls, "context.fillRect") # {}
    /\ Positions(calls, "context.restore") # {}
    /\ draws > 1

\* C19: with fps > 0, a tick that draws calls draw once and moves lastDraw forward by
\* at least one interval from where it was (the tick's timeNow less its draw delta) and
\* never past the clock; so in every state the draws made by the render loop number at
\* most floor((now - initial lastDraw) / interval), however late or irregular the ticks
\* are.
C19_NoDrawBurst ==
    fps > 0 =>
        /\ (RanLoop /\ tick.drew) =>
              /\ lastDraw >= (tick.timeNow - tick.drawDeltaTime) + interval
              /\ lastDraw <= now
              /\ Cardinality(Positions(calls, "draw")) = 1
        /\ draws <= (now - initialLastDraw) \div interval

\* C19 witness: after a stall of three intervals or more one tick drew, and the tick
\* that followed it did not draw
C19_Witness ==
    /\ RanLoop
    /\ ~tick.drew
    /\ draws = 1
    /\ lastDraw - initialLastDraw >= 3 * interval
    /\ tick.timeNow >= lastDraw

\* the last handler ended in an error thrown by a user hook
Threw == Positions(calls, "throw") # {}

\* C20: once the render loop has started exactly one host tick is requested between
\* handlers: every renderLoop invocation, the first included, requests one successor
\* and does so before it calls update or draw, so that a tick in which the user's
\* update or draw throws has requested its successor all the same and the loop goes
\* on; before the start none is requested.
C20_OneOutstandingTick ==
    /\ pending = (IF phase = "running" THEN 1 ELSE 0)
    /\ RanLoop =>
          /\ Cardinality(Positions(calls, "requestAnimationFrame")) = 1
          /\ \A r \in Positions(calls, "requestAnimationFrame"),
                t \in TickPositions(calls) \cup Positions(calls, "throw") : r <= t
    /\ Threw => (RanLoop /\ pending = 1 /\ Op(calls[Len(calls)]) = "throw")

\* C20 witness (index.js): a tick that returned normally, after a tick in which the
\* user's update threw: the deltas passed to update sum to more than the time elapsed,
\* which takes a tick that left lastUpdate unassigned
C20_Witness ==
    /\ entry = "index"
    /\ RanLoop
    /\ ~Threw
    /\ pending = 1
    /\ simulated > now - initialLastUpdate

\* C20, the tick of the throw itself: the user's draw threw after save, and the
\* successor is requested
C20_ThrowInDrawExample ==
    /\ Threw
    /\ calls[Len(calls)] = CallWith("throw", "options.draw")
    /\ Positions(calls, "context.save") # {}
    /\ Positions(calls, "context.restore") = {}
    /\ pending = 1

====
